---- MODULE Spec2Model ----
(***************************************************************************)
(* json2csv: flattening of JSON documents into (key, value) rows and the   *)
(* CSV writer, modelled from src/json2csv.py.                              *)
(*                                                                         *)
(* Strings are sequences of one-character strings, so that concatenation,  *)
(* length and character membership are computed as Python computes them.   *)
(* A generator is the record [out, err]: the pairs it yields before it     *)
(* ends, and the exception that ends it ("none" for normal exhaustion).    *)
(***************************************************************************)
EXTENDS Integers, Sequences, FiniteSets, TLC

VARIABLES pc, args, json_files, file_index, all_data, out_file, opens,
          status, row_count, fn, fn_data, fn_key, fn_result

vars == <<pc, args, json_files, file_index, all_data, out_file, opens,
          status, row_count, fn, fn_data, fn_key, fn_result>>

-----------------------------------------------------------------------------
(* Bounds of the model *)

MaxDepth == 1

MaxWidth == 2

MaxFiles == 2

MaxRows == 2

-----------------------------------------------------------------------------
(* Program constants *)

PARENT_KEY == <<>>

KEY_SEPARATOR == <<"_">>

INDEX_FORMAT == <<"{", ":", "0", "4", "d", "}">>

CSV_HEADERS == << <<"k", "e", "y">>, <<"v", "a", "l", "u", "e">> >>

MAX_KEY_LENGTH == 256

InvalidChars == {",", "\n", "\r"}

-----------------------------------------------------------------------------
(* JSON values as Python objects *)

JNull == [t |-> "null"]

JBool(b) == [t |-> "bool", b |-> b]

JNum(n) == [t |-> "num", n |-> n]

JStr(s) == [t |-> "str", s |-> s]

JArr(items) == [t |-> "arr", items |-> items]

JObj(fields) == [t |-> "obj", fields |-> fields]

\* a Python value of a type json never produces (a set, a tuple, ...)
JOther == [t |-> "other"]

\* one dict item; keytype is the Python type of the key
Field(k, v) == [key |-> k, keytype |-> "str", value |-> v]

IsPrimitive(data) == data.t \in {"null", "bool", "num", "str"}

-----------------------------------------------------------------------------
(* Python string helpers *)

Digits == <<"0", "1", "2", "3", "4", "5", "6", "7", "8", "9">>

RECURSIVE DecStr(_)
\* str(n) for an int n >= 0
DecStr(n) == IF n < 10 THEN <<Digits[n + 1]>>
             ELSE DecStr(n \div 10) \o <<Digits[(n % 10) + 1]>>

\* the zero-fill of a format spec "0<w>d"
ZeroPad(s, w) == IF Len(s) >= w THEN s
                 ELSE [i \in 1..(w - Len(s)) |-> "0"] \o s

\* any(c in s for c in chars)
ContainsAny(s, chars) == \E i \in 1..Len(s) : s[i] \in chars

\* s.replace(",", "_")
ReplaceComma(s) == [i \in 1..Len(s) |-> IF s[i] = "," THEN "_" ELSE s[i]]

\* index_format.format(index): the rendered string, or the exception raised
FormatIndex(index_format, index) ==
    CASE index_format = INDEX_FORMAT ->
           [exc |-> "none", s |-> ZeroPad(DecStr(index), 4)]
      [] index_format = <<"{", ":", "d", "}", ",">> ->
           [exc |-> "none", s |-> DecStr(index) \o <<",">>]
      [] index_format = <<"{", ":", "s", "}">> ->
           [exc |-> "ValueError", s |-> <<>>]
      [] index_format = <<"{", "1", "}">> ->
           [exc |-> "IndexError", s |-> <<>>]

-----------------------------------------------------------------------------
(* Generators *)

Yield(pairs) == [out |-> pairs, err |-> "none"]

Raise(exc) == [out |-> <<>>, err |-> exc]

\* run generator a, then b unless a raised
Chain(a, b) == IF a.err # "none" THEN a
               ELSE [out |-> a.out \o b.out, err |-> b.err]

Pair(k, v) == [key |-> k, value |-> v]

-----------------------------------------------------------------------------
(* flatten_json *)

ComposeKeyAlwaysSep(parent_key, separator, child) ==
    parent_key \o separator \o child

ComposeKeyNoSep(parent_key, separator, child) ==
    IF parent_key # <<>> THEN parent_key \o child ELSE child

\* f"{parent_key}{separator}{key}" if parent_key else key
ComposeKey(parent_key, separator, child) ==
    IF parent_key # <<>> THEN parent_key \o separator \o child ELSE child

\* the two checks made when validate_keys is set
KeyIsValid(new_key) ==
    /\ ~(Len(new_key) > MAX_KEY_LENGTH)
    /\ ~ContainsAny(new_key, InvalidChars)

\* the index segment of a list element
IndexSegment(index_format, index) ==
    LET r == FormatIndex(index_format, index)
    IN  IF r.exc = "none" THEN r
        ELSE IF r.exc = "ValueError" THEN [exc |-> "none", s |-> DecStr(index)]
        ELSE r

RECURSIVE flatten_json(_, _, _, _, _)
RECURSIVE flatten_dict(_, _, _, _, _, _)
RECURSIVE flatten_list(_, _, _, _, _, _)

\* the dict branch, from the i-th item on
flatten_dict(fields, i, parent_key, separator, index_format, validate_keys) ==
    IF i > Len(fields) THEN Yield(<<>>)
    ELSE IF fields[i].keytype # "str" THEN Raise("ValueError")
    ELSE LET new_key == ComposeKey(parent_key, separator, fields[i].key)
         IN  IF validate_keys /\ ~KeyIsValid(new_key) THEN Raise("ValueError")
             ELSE Chain(flatten_json(fields[i].value, new_key, separator,
                                     index_format, validate_keys),
                        flatten_dict(fields, i + 1, parent_key, separator,
                                     index_format, validate_keys))

\* the list branch, from the i-th element on (index i - 1)
flatten_list(items, i, parent_key, separator, index_format, validate_keys) ==
    IF i > Len(items) THEN Yield(<<>>)
    ELSE LET idx == IndexSegment(index_format, i - 1)
         IN  IF idx.exc # "none" THEN Raise(idx.exc)
             ELSE Chain(flatten_json(items[i],
                                     ComposeKey(parent_key, separator, idx.s),
                                     separator, index_format, validate_keys),
                        flatten_list(items, i + 1, parent_key, separator,
                                     index_format, validate_keys))

flatten_json(data, parent_key, separator, index_format, validate_keys) ==
    IF data.t = "obj"
    THEN flatten_dict(data.fields, 1, parent_key, separator, index_format,
                      validate_keys)
    ELSE IF data.t = "arr"
    THEN flatten_list(data.items, 1, parent_key, separator, index_format,
                      validate_keys)
    ELSE IF IsPrimitive(data) THEN Yield(<<Pair(parent_key, data)>>)
    ELSE Raise("ValueError")

-----------------------------------------------------------------------------
(* process_json_data *)

RECURSIVE process_list(_, _, _, _, _, _)
\* the list branch, from the i-th item on
process_list(items, i, file_prefix, separator, index_format, validate_keys) ==
    IF i > Len(items) THEN Yield(<<>>)
    ELSE IF items[i].t # "obj" THEN Raise("ValueError")
    ELSE Chain(flatten_json(items[i], file_prefix, separator, index_format,
                            validate_keys),
               process_list(items, i + 1, file_prefix, separator,
                            index_format, validate_keys))

process_json_data_whole(data, file_prefix, separator, index_format, validate_keys) ==
    IF data.t \in {"obj", "arr"}
    THEN flatten_json(data, file_prefix, separator, index_format, validate_keys)
    ELSE Raise("ValueError")

process_json_data(data, file_prefix, separator, index_format, validate_keys) ==
    IF data.t = "obj"
    THEN flatten_json(data, file_prefix, separator, index_format, validate_keys)
    ELSE IF data.t = "arr"
    THEN process_list(data.items, 1, file_prefix, separator, index_format,
                      validate_keys)
    ELSE Raise("ValueError")

-----------------------------------------------------------------------------
(* Input documents *)

SeqsUpTo(S, n) == UNION {[1..k -> S] : k \in 0..n}

DistinctKeys(fields) ==
    \A i, j \in 1..Len(fields) : fields[i].key = fields[j].key => i = j

GenNames == {<<>>, <<"a">>}

GenPrims == {JNum(1)}

RECURSIVE Gen(_)
\* every JSON value nested at most d deep whose containers hold at most
\* MaxWidth children
Gen(d) ==
    IF d = 0 THEN GenPrims
    ELSE LET S == Gen(d - 1)
             F == {Field(k, v) : k \in GenNames, v \in S}
         IN  GenPrims
               \cup {JArr(items) : items \in SeqsUpTo(S, MaxWidth)}
               \cup {JObj(fields) : fields \in
                       {fs \in SeqsUpTo(F, MaxWidth) : DistinctKeys(fs)}}

Name(c, n) == [i \in 1..n |-> c]

\* {"a": {"b": 1, "c": [10, 20]}}
DocNested ==
    JObj(<<Field(<<"a">>,
                 JObj(<<Field(<<"b">>, JNum(1)),
                        Field(<<"c">>, JArr(<<JNum(10), JNum(20)>>))>>))>>)

\* [{"x": true}, {"x": false}]
DocRecords ==
    JArr(<<JObj(<<Field(<<"x">>, JBool(TRUE))>>),
           JObj(<<Field(<<"x">>, JBool(FALSE))>>)>>)

\* {"": {"b": 1}, "b": 2}
DocEmptyName ==
    JObj(<<Field(<<>>, JObj(<<Field(<<"b">>, JNum(1))>>)),
           Field(<<"b">>, JNum(2))>>)

\* {"a": {}, "b": [[]], "c": null}
DocEmpties ==
    JObj(<<Field(<<"a">>, JObj(<<>>)),
           Field(<<"b">>, JArr(<<JArr(<<>>)>>)),
           Field(<<"c">>, JNull)>>)

\* {"aaa...a": [1]} with a name of 254 characters
DocLongList == JObj(<<Field(Name("a", 254), JArr(<<JNum(1)>>))>>)

\* {"aaa...a": 1} with a name of 255 characters
DocLongName == JObj(<<Field(Name("a", 255), JNum(1))>>)

\* {"a": 1, "b,": 2}
DocCommaName ==
    JObj(<<Field(<<"a">>, JNum(1)), Field(<<"b", ",">>, JNum(2))>>)

\* [{"x": 1}, 5]
DocMixedList == JArr(<<JObj(<<Field(<<"x">>, JNum(1))>>), JNum(5)>>)

\* [null, true, "s"]
DocPrimList == JArr(<<JNull, JBool(TRUE), JStr(<<"s">>)>>)

\* {7: 1}: a dict with an int key
DocIntKey == JObj(<<[key |-> <<"7">>, keytype |-> "int", value |-> JNum(1)]>>)

\* {"a": {1, 2}}: a value json does not produce
DocOther == JObj(<<Field(<<"a">>, JOther)>>)

ScenarioDocs ==
    {DocNested, DocRecords, DocEmptyName, DocEmpties, DocLongList,
     DocLongName, DocCommaName, DocMixedList, DocPrimList, DocIntKey, DocOther}

Docs == Gen(MaxDepth) \cup ScenarioDocs

StartKeys == {PARENT_KEY, <<"f">>}

Separators == {KEY_SEPARATOR, <<":", ":">>}

IndexFormats ==
    {INDEX_FORMAT, <<"{", ":", "d", "}", ",">>, <<"{", ":", "s", "}">>,
     <<"{", "1", "}">>}

Args(separator, index_format, validate_keys) ==
    [separator |-> separator, index_format |-> index_format,
     validate_keys |-> validate_keys]

NoFile == [exists |-> FALSE, rows |-> <<>>]

NoResult == [out |-> <<>>, err |-> "not called"]

-----------------------------------------------------------------------------
(* Calls of flatten_json and process_json_data on every input *)

InitFlatten ==
    /\ pc = "call"
    /\ args \in {Args(s, f, v) : s \in Separators, f \in IndexFormats,
                                 v \in BOOLEAN}
    /\ fn_data \in Docs
    /\ fn_key \in StartKeys
    /\ fn = "none"
    /\ fn_result = NoResult
    /\ json_files = <<>>
    /\ file_index = 0
    /\ all_data = <<>>
    /\ out_file = NoFile
    /\ opens = 0
    /\ status = 0
    /\ row_count = 0

CallFlattenJson ==
    /\ pc = "call"
    /\ pc' = "returned"
    /\ fn' = "flatten_json"
    /\ fn_result' = flatten_json(fn_data, fn_key, args.separator,
                                 args.index_format, args.validate_keys)
    /\ UNCHANGED <<args, json_files, file_index, all_data, out_file, opens,
                   status, row_count, fn_data, fn_key>>

CallProcessJsonData ==
    /\ pc = "call"
    /\ pc' = "returned"
    /\ fn' = "process_json_data"
    /\ fn_result' = process_json_data(fn_data, fn_key, args.separator,
                                      args.index_format, args.validate_keys)
    /\ UNCHANGED <<args, json_files, file_index, all_data, out_file, opens,
                   status, row_count, fn_data, fn_key>>

NextFlatten == CallFlattenJson \/ CallProcessJsonData

SpecFlatten == InitFlatten /\ [][NextFlatten]_vars

-----------------------------------------------------------------------------
(* Reference definitions used to state the properties of flattening *)

RECURSIVE IsJson(_)
\* built from primitives, objects with string keys, and arrays
IsJson(v) ==
    IF v.t = "obj"
    THEN \A i \in 1..Len(v.fields) :
            v.fields[i].keytype = "str" /\ IsJson(v.fields[i].value)
    ELSE IF v.t = "arr" THEN \A i \in 1..Len(v.items) : IsJson(v.items[i])
    ELSE IsPrimitive(v)

RECURSIVE ConcatAll(_)
ConcatAll(seqs) ==
    IF seqs = <<>> THEN <<>> ELSE Head(seqs) \o ConcatAll(Tail(seqs))

\* the four-digit zero-padded rendering of a position below 10000
Padded4(n) ==
    <<Digits[((n \div 1000) % 10) + 1], Digits[((n \div 100) % 10) + 1],
      Digits[((n \div 10) % 10) + 1], Digits[(n % 10) + 1]>>

Under(seg, leaves) ==
    [j \in 1..Len(leaves) |->
        [path |-> <<seg>> \o leaves[j].path, value |-> leaves[j].value]]

RECURSIVE LeafPaths(_)
\* the primitive leaves of v in depth-first, left-to-right order, each with
\* the field names and padded positions that lead to it
LeafPaths(v) ==
    IF v.t = "obj"
    THEN ConcatAll([i \in 1..Len(v.fields) |->
                      Under(v.fields[i].key, LeafPaths(v.fields[i].value))])
    ELSE IF v.t = "arr"
    THEN ConcatAll([i \in 1..Len(v.items) |->
                      Under(Padded4(i - 1), LeafPaths(v.items[i]))])
    ELSE <<[path |-> <<>>, value |-> v]>>

RECURSIVE Join(_, _)
\* the segments joined with the separator
Join(path, sep) ==
    IF path = <<>> THEN <<>>
    ELSE IF Len(path) = 1 THEN path[1]
    ELSE path[1] \o sep \o Join(Tail(path), sep)

\* the starting key followed by the path segments joined with the separator
JoinedKey(start, path, sep) ==
    IF path = <<>> THEN start
    ELSE IF start = <<>> THEN Join(path, sep)
    ELSE start \o sep \o Join(path, sep)

RECURSIVE AppendedKey(_, _, _)
\* the segments appended one at a time, the separator being put only after
\* a non-empty key
AppendedKey(key, path, sep) ==
    IF path = <<>> THEN key
    ELSE AppendedKey(IF key = <<>> THEN Head(path)
                     ELSE key \o sep \o Head(path),
                     Tail(path), sep)

FlattenCalled == pc = "returned" /\ fn = "flatten_json"

ProcessCalled == pc = "returned" /\ fn = "process_json_data"

PrefixF == <<"f">>

-----------------------------------------------------------------------------
(* C1 *)

C1_Case ==
    /\ FlattenCalled
    /\ IsJson(fn_data)
    /\ ~args.validate_keys
    /\ args.index_format = INDEX_FORMAT

C1_Scenario ==
    (fn_data = DocNested /\ fn_key = PrefixF /\ args.separator = KEY_SEPARATOR)
    => fn_result.out =
         <<Pair(<<"f", "_", "a", "_", "b">>, JNum(1)),
           Pair(<<"f", "_", "a", "_", "c", "_", "0", "0", "0", "0">>, JNum(10)),
           Pair(<<"f", "_", "a", "_", "c", "_", "0", "0", "0", "1">>, JNum(20))>>

\* C1 as stated: with validation off and the default index format,
\* flatten_json yields exactly one pair per primitive leaf, in depth-first
\* left-to-right order, and each key is the starting key followed by the
\* leaf's path segments joined with the separator.
C1_Original ==
    C1_Case =>
      LET L == LeafPaths(fn_data)
      IN  /\ fn_result.err = "none"
          /\ fn_result.out =
               [i \in 1..Len(L) |->
                  Pair(JoinedKey(fn_key, L[i].path, args.separator),
                       L[i].value)]

\* C1 as amended: with validation off and the default index format,
\* flatten_json yields exactly one pair per primitive leaf and nothing else,
\* in depth-first left-to-right order; each key is the starting key with the
\* leaf's path segments appended one at a time, the separator being put
\* before a segment only when the key built so far is non-empty; the
\* scenario {"a": {"b": 1, "c": [10, 20]}} with prefix "f" yields f_a_b,
\* f_a_c_0000, f_a_c_0001 in that order.
C1_Amended ==
    C1_Case =>
      LET L == LeafPaths(fn_data)
      IN  /\ fn_result.err = "none"
          /\ fn_result.out =
               [i \in 1..Len(L) |->
                  Pair(AppendedKey(fn_key, L[i].path, args.separator),
                       L[i].value)]
          /\ C1_Scenario

C1_Witness ==
    /\ C1_Case
    /\ fn_data = DocNested
    /\ fn_key = PrefixF
    /\ args.separator = KEY_SEPARATOR
    /\ Len(fn_result.out) = 3

-----------------------------------------------------------------------------
(* C3 *)

\* C3 as stated: with validate_keys set, no pair emitted by flatten_json has
\* a key longer than MAX_KEY_LENGTH or holding a comma, carriage return or
\* line feed.
C3_Claim ==
    (FlattenCalled /\ args.validate_keys)
    => \A i \in 1..Len(fn_result.out) :
          /\ Len(fn_result.out[i].key) <= MAX_KEY_LENGTH
          /\ ~ContainsAny(fn_result.out[i].key, {",", "\n", "\r"})

-----------------------------------------------------------------------------
(* C7 *)

IsPrimList(v) ==
    v.t = "arr" /\ \A i \in 1..Len(v.items) : IsPrimitive(v.items[i])

\* C7 as stated: for an array of N primitives and any index format,
\* flatten_json yields exactly N pairs and does not fail; the index segment
\* of element i is the format applied to i when it renders, and the decimal
\* string of i when the format fails to render for any reason.
C7_Claim ==
    (FlattenCalled /\ IsPrimList(fn_data))
    => /\ fn_result.err = "none"
       /\ Len(fn_result.out) = Len(fn_data.items)
       /\ \A i \in 1..Len(fn_result.out) :
             LET r == FormatIndex(args.index_format, i - 1)
                 seg == IF r.exc = "none" THEN r.s ELSE DecStr(i - 1)
             IN  fn_result.out[i].key =
                   AppendedKey(fn_key, <<seg>>, args.separator)

-----------------------------------------------------------------------------
(* C8 *)

IsFlatObject(v) ==
    /\ v.t = "obj"
    /\ \A i \in 1..Len(v.fields) :
          v.fields[i].keytype = "str" /\ IsPrimitive(v.fields[i].value)

C8_Case ==
    /\ FlattenCalled
    /\ IsFlatObject(fn_data)
    /\ args.validate_keys =>
         \A i \in 1..Len(fn_data.fields) :
            KeyIsValid(fn_key \o args.separator \o fn_data.fields[i].key)

\* C8 as stated: an object whose values are all primitives yields as many
\* pairs as it has fields, and the key of each pair is
\* prefix + separator + fieldname, for every prefix.
C8_Original ==
    C8_Case =>
      /\ Len(fn_result.out) = Len(fn_data.fields)
      /\ \A i \in 1..Len(fn_result.out) :
            fn_result.out[i].key =
              fn_key \o args.separator \o fn_data.fields[i].key

\* C8 as amended: an object whose values are all primitives yields as many
\* pairs as it has fields (when validation is on, provided the keys pass
\* it); the key of each pair is prefix + separator + fieldname when the
\* prefix is non-empty, and the field name alone when the prefix is empty.
C8_Amended ==
    C8_Case =>
      /\ fn_result.err = "none"
      /\ Len(fn_result.out) = Len(fn_data.fields)
      /\ \A i \in 1..Len(fn_result.out) :
            /\ fn_result.out[i].value = fn_data.fields[i].value
            /\ fn_result.out[i].key =
                 IF fn_key = <<>> THEN fn_data.fields[i].key
                 ELSE fn_key \o args.separator \o fn_data.fields[i].key

C8_Witness ==
    /\ C8_Case
    /\ fn_key = <<>>
    /\ Len(fn_data.fields) = 2
    /\ fn_result.out[2].key = <<"a">>

-----------------------------------------------------------------------------
(* C6 *)

AllObjects(items) == \A i \in 1..Len(items) : items[i].t = "obj"

\* the generators run one after the other, up to the first that raises
InOrder(gens) ==
    LET bad == {i \in 1..Len(gens) : gens[i].err # "none"}
        last == IF bad = {} THEN Len(gens)
                ELSE CHOOSE i \in bad : \A j \in bad : i <= j
    IN  [out |-> ConcatAll([i \in 1..last |-> gens[i].out]),
         err |-> IF bad = {} THEN "none" ELSE gens[last].err]

C6_Scenario ==
    (fn_data = DocRecords /\ fn_key = PrefixF /\ args.separator = KEY_SEPARATOR)
    => fn_result = Yield(<<Pair(<<"f", "_", "x">>, JBool(TRUE)),
                           Pair(<<"f", "_", "x">>, JBool(FALSE))>>)

\* C6: process_json_data on an object yields flatten_json of it started from
\* the file prefix; on an array of objects it yields, in element order, the
\* pairs of flatten_json of each element, each started from the same file
\* prefix with no element index in the key; on any other shape (a
\* primitive, an array holding a non-object) it fails.
C6_Shapes ==
    ProcessCalled =>
      /\ fn_data.t = "obj" =>
           fn_result = flatten_json(fn_data, fn_key, args.separator,
                                    args.index_format, args.validate_keys)
      /\ (fn_data.t = "arr" /\ AllObjects(fn_data.items)) =>
           fn_result =
             InOrder([i \in 1..Len(fn_data.items) |->
                        flatten_json(fn_data.items[i], fn_key, args.separator,
                                     args.index_format, args.validate_keys)])
      /\ ~(fn_data.t = "obj" \/ (fn_data.t = "arr" /\ AllObjects(fn_data.items)))
           => fn_result.err # "none"
      /\ C6_Scenario

C6_Witness ==
    /\ ProcessCalled
    /\ fn_data = DocRecords
    /\ fn_key = PrefixF
    /\ Len(fn_result.out) = 2
    /\ fn_result.out[1].key = fn_result.out[2].key
    /\ fn_result.out[1].value # fn_result.out[2].value

-----------------------------------------------------------------------------
(* write_csv *)

\* the text csv.writer puts in a cell: None as the empty string, a str as
\* it is, anything else through str()
CsvCell(v) ==
    CASE v.t = "null" -> <<>>
      [] v.t = "str" -> v.s
      [] v.t = "bool" -> IF v.b THEN <<"T", "r", "u", "e">>
                         ELSE <<"F", "a", "l", "s", "e">>
      [] v.t = "num" -> DecStr(v.n)

SanitizedKeyRaw(key) == key

\* key.replace(",", "_")
SanitizedKey(key) == ReplaceComma(key)

\* the lines write_csv hands to the csv writer for the pairs in `pairs`
CsvLines(pairs) ==
    <<CSV_HEADERS>> \o
    [i \in 1..Len(pairs) |-> <<SanitizedKey(pairs[i].key), CsvCell(pairs[i].value)>>]

\* what the file system does to the call: "ok"; "open_error" (mkdir or open
\* raises OSError, the file is not touched); "write_error" (a write raises
\* OSError after `lines` lines have reached the file)
IoOutcomes(pairs) ==
    {[kind |-> "ok", lines |-> 0], [kind |-> "open_error", lines |-> 0]}
      \cup {[kind |-> "write_error", lines |-> k] : k \in 0..Len(pairs)}

\* write_csv(data, path) where `file` is the state of path before the call.
\* err = "none" means the call returned row_count.
write_csv(data, file, io) ==
    IF io.kind = "open_error"
    THEN [file |-> file, opened |-> FALSE, row_count |-> 0, err |-> "IOError"]
    ELSE IF io.kind = "write_error"
    THEN [file |-> [exists |-> TRUE,
                    rows |-> SubSeq(CsvLines(data.out), 1, io.lines)],
          opened |-> TRUE,
          row_count |-> IF io.lines = 0 THEN 0 ELSE io.lines - 1,
          err |-> "IOError"]
    ELSE [file |-> [exists |-> TRUE, rows |-> CsvLines(data.out)],
          opened |-> TRUE,
          row_count |-> Len(data.out),
          err |-> IF data.err # "none" THEN data.err
                  ELSE IF Len(data.out) = 0 THEN "ValueError"
                  ELSE "none"]

OldFile == [exists |-> TRUE, rows |-> << <<<<"o", "l", "d">>>> >>]

WriteKeys == {<<"f", "_", "a">>, <<"f", ",", "a", ",">>, <<",">>}

WritePairs == {Pair(k, v) : k \in WriteKeys, v \in {JNum(1), JNull}}

InitWrite ==
    /\ pc = "call"
    /\ fn_data \in [out : SeqsUpTo(WritePairs, MaxRows),
                    err : {"none", "ValueError"}]
    /\ out_file \in {NoFile, OldFile}
    /\ args = Args(KEY_SEPARATOR, INDEX_FORMAT, FALSE)
    /\ fn_key = <<>>
    /\ fn = "none"
    /\ fn_result = NoResult
    /\ json_files = <<>>
    /\ file_index = 0
    /\ all_data = <<>>
    /\ opens = 0
    /\ status = 0
    /\ row_count = 0

CallWriteCsv ==
    /\ pc = "call"
    /\ \E io \in IoOutcomes(fn_data.out) :
          LET r == write_csv(fn_data, out_file, io)
          IN  /\ out_file' = r.file
              /\ opens' = IF r.opened THEN opens + 1 ELSE opens
              /\ row_count' = r.row_count
              /\ fn_result' = [out |-> <<>>, err |-> r.err]
    /\ pc' = "returned"
    /\ fn' = "write_csv"
    /\ UNCHANGED <<args, json_files, file_index, all_data, status, fn_data,
                   fn_key>>

NextWrite == CallWriteCsv

SpecWrite == InitWrite /\ [][NextWrite]_vars

WriteCalled == pc = "returned" /\ fn = "write_csv"

-----------------------------------------------------------------------------
(* C5 *)

\* C5 as stated: write_csv on a sequence of zero pairs fails with the
\* empty-output error and leaves no file at the path, or at most an empty
\* one (no header-only CSV).
C5_Claim ==
    (WriteCalled /\ fn_data = Yield(<<>>) /\ fn_result.err # "IOError")
    => /\ fn_result.err = "ValueError"
       /\ ~out_file.exists \/ out_file.rows = <<>>

-----------------------------------------------------------------------------
(* C9 *)

\* every comma of key replaced by an underscore, nothing else changed
CommasReplaced(key, cell) ==
    /\ Len(cell) = Len(key)
    /\ \A j \in 1..Len(key) :
          cell[j] = IF key[j] = "," THEN "_" ELSE key[j]

\* C9: after write_csv returns on a non-empty sequence, the file holds the
\* header row and then one row per pair in the sequence's order, each the
\* pair's key with every comma replaced by an underscore and the pair's
\* value; no written key holds a comma; the returned count is the number of
\* pairs.
C9_Written ==
    (WriteCalled /\ fn_result.err = "none")
    => /\ fn_data.out # <<>>
       /\ out_file.exists
       /\ Len(out_file.rows) = 1 + Len(fn_data.out)
       /\ out_file.rows[1] = CSV_HEADERS
       /\ \A i \in 1..Len(fn_data.out) :
             /\ CommasReplaced(fn_data.out[i].key, out_file.rows[i + 1][1])
             /\ "," \notin {out_file.rows[i + 1][1][j] :
                              j \in 1..Len(out_file.rows[i + 1][1])}
             /\ out_file.rows[i + 1][2] = CsvCell(fn_data.out[i].value)
       /\ row_count = Len(fn_data.out)

C9_Witness ==
    /\ WriteCalled
    /\ fn_result.err = "none"
    /\ Len(fn_data.out) = 2
    /\ fn_data.out[1].key = <<"f", ",", "a", ",">>
    /\ out_file.rows[2][1] = <<"f", "_", "a", "_">>
    /\ row_count = 2

-----------------------------------------------------------------------------
(* run *)

\* parse_arguments: the exception its two checks raise, or "none"
parse_arguments(cli) ==
    IF ContainsAny(cli.separator, InvalidChars) THEN "ValueError"
    ELSE FormatIndex(cli.index_format, 0).exc

\* get_json_files: no path, no .json file
get_json_files(files) ==
    IF Len(files) = 0 THEN "FileNotFoundError" ELSE "none"

\* load_json_data on a file that cannot be opened, does not parse, or parses
\* to `data`
load_json_data(file) ==
    IF file.kind = "unreadable" THEN [exc |-> "OSError", data |-> JNull]
    ELSE IF file.kind = "invalid" THEN [exc |-> "ValueError", data |-> JNull]
    ELSE IF file.data.t \notin {"obj", "arr"}
    THEN [exc |-> "ValueError", data |-> JNull]
    ELSE [exc |-> "none", data |-> file.data]

\* json_file.stem of the i-th input file: f.json, f2.json, f3.json, ...
Stem(i) == IF i = 1 THEN <<"f">> ELSE <<"f">> \o DecStr(i)

JsonFile(data) == [kind |-> "json", data |-> data]

FileContents ==
    {JsonFile(DocNested), JsonFile(DocRecords), JsonFile(DocMixedList),
     JsonFile(DocCommaName), JsonFile(JArr(<<>>)), JsonFile(JNum(1)),
     [kind |-> "invalid", data |-> JNull],
     [kind |-> "unreadable", data |-> JNull]}

CliSeparators == {KEY_SEPARATOR, <<>>, <<",">>, <<"-", "\n">>}

Init ==
    /\ pc = "start"
    /\ args \in {Args(s, f, v) : s \in CliSeparators, f \in IndexFormats,
                                 v \in BOOLEAN}
    /\ json_files \in SeqsUpTo(FileContents, MaxFiles)
    /\ out_file \in {NoFile, OldFile}
    /\ file_index = 0
    /\ all_data = <<>>
    /\ opens = 0
    /\ status = 0
    /\ row_count = 0
    /\ fn = "none"
    /\ fn_data = JNull
    /\ fn_key = <<>>
    /\ fn_result = NoResult

\* the first try block: ValueError and FileNotFoundError end the run with
\* status 1, any other exception ends it with a traceback
Initialize ==
    /\ pc = "start"
    /\ LET e1 == parse_arguments(args)
           e2 == IF e1 = "none" THEN get_json_files(json_files) ELSE e1
       IN  /\ pc' = IF e2 = "none" THEN "loop"
                    ELSE IF e2 \in {"ValueError", "FileNotFoundError"}
                    THEN "exit"
                    ELSE "crashed"
           /\ status' = IF e2 = "none" THEN status ELSE 1
    /\ UNCHANGED <<args, json_files, file_index, all_data, out_file, opens,
                   row_count, fn, fn_data, fn_key, fn_result>>

\* one iteration of the per-file loop; all_data.extend(rows) appends the
\* pairs one by one, so those yielded before an exception stay in all_data
ProcessFile ==
    /\ pc = "loop"
    /\ file_index < Len(json_files)
    /\ LET loaded == load_json_data(json_files[file_index + 1])
           rows == IF loaded.exc = "none"
                   THEN process_json_data(loaded.data, Stem(file_index + 1),
                                          args.separator, args.index_format,
                                          args.validate_keys)
                   ELSE Raise(loaded.exc)
       IN  /\ all_data' = all_data \o rows.out
           /\ IF rows.err \in {"none", "ValueError"}
              THEN /\ file_index' = file_index + 1
                   /\ UNCHANGED <<pc, status>>
              ELSE /\ pc' = "crashed"
                   /\ status' = 1
                   /\ UNCHANGED file_index
    /\ UNCHANGED <<args, json_files, out_file, opens, row_count, fn, fn_data,
                   fn_key, fn_result>>

CheckDataAlwaysWrite ==
    /\ pc = "loop"
    /\ file_index = Len(json_files)
    /\ pc' = "write"
    /\ UNCHANGED <<args, json_files, file_index, all_data, out_file, opens,
                   status, row_count, fn, fn_data, fn_key, fn_result>>

\* after the loop: no data ends the run with status 1
CheckData ==
    /\ pc = "loop"
    /\ file_index = Len(json_files)
    /\ pc' = IF all_data = <<>> THEN "exit" ELSE "write"
    /\ status' = IF all_data = <<>> THEN 1 ELSE status
    /\ UNCHANGED <<args, json_files, file_index, all_data, out_file, opens,
                   row_count, fn, fn_data, fn_key, fn_result>>

\* the last try block: write_csv on the list all_data
WriteOutput ==
    /\ pc = "write"
    /\ \E io \in IoOutcomes(all_data) :
          LET r == write_csv(Yield(all_data), out_file, io)
          IN  /\ out_file' = r.file
              /\ opens' = IF r.opened THEN opens + 1 ELSE opens
              /\ row_count' = r.row_count
              /\ status' = IF r.err = "none" THEN 0 ELSE 1
    /\ pc' = "exit"
    /\ UNCHANGED <<args, json_files, file_index, all_data, fn, fn_data,
                   fn_key, fn_result>>

Next == Initialize \/ ProcessFile \/ CheckData \/ WriteOutput

Spec == Init /\ [][Next]_vars

-----------------------------------------------------------------------------
(* C2 *)

\* a separator that is empty, a comma, or holds a carriage return or line feed
BadSeparator(s) ==
    s = <<>> \/ s = <<",">> \/ ContainsAny(s, {"\n", "\r"})

\* the pairs of the i-th file when loading and flattening it raise nothing,
\* none otherwise
Contribution(i) ==
    LET loaded == load_json_data(json_files[i])
        rows == IF loaded.exc = "none"
                THEN process_json_data(loaded.data, Stem(i), args.separator,
                                       args.index_format, args.validate_keys)
                ELSE Raise(loaded.exc)
    IN  IF rows.err = "none" THEN rows.out ELSE <<>>

\* C2 as stated: a file whose loading or flattening fails is skipped as a
\* whole, so the accumulated rows are exactly the pairs of the files
\* processed without failure.
C2_Claim ==
    (~BadSeparator(args.separator) /\ args.index_format = INDEX_FORMAT)
    => all_data = ConcatAll([i \in 1..file_index |-> Contribution(i)])

-----------------------------------------------------------------------------
(* C4 *)

\* C4 as stated: an empty separator, a comma, or one holding a carriage
\* return or line feed is rejected when the arguments are parsed: the run
\* exits with status 1 before any file is loaded or flattened.
C4_Claim ==
    (BadSeparator(args.separator) /\ args.index_format = INDEX_FORMAT)
    => /\ pc \in {"start", "exit"}
       /\ file_index = 0
       /\ pc = "exit" => status = 1

-----------------------------------------------------------------------------
(* C10 *)

\* C10: the output file is created or overwritten at most once, only by the
\* write step and only once the loop has visited every input file; when the
\* accumulated rows are empty the run ends with a non-zero status, write_csv
\* is not called and the output path is left as it was.
C10_WriteOnce ==
    /\ [][(out_file' # out_file \/ opens' # opens)
            => /\ pc = "write"
               /\ opens = 0 /\ opens' = 1
               /\ file_index = Len(json_files)
               /\ all_data # <<>>]_vars
    /\ [][pc' = "write" => file_index = Len(json_files) /\ all_data # <<>>]_vars
    /\ []((pc = "exit" /\ all_data = <<>>) => (status # 0 /\ opens = 0))

C10_Witness ==
    /\ pc = "exit"
    /\ status = 0
    /\ opens = 1
    /\ file_index = 2
    /\ json_files[1] = JsonFile(JArr(<<>>))
    /\ out_file.exists /\ Len(out_file.rows) = 4

====
